---------------------------- MODULE Spec2Model ----------------------------
(***************************************************************************)
(* GitCanvas: the Stats Fetcher (utils/github_utils.py), the Card Renderer *)
(* (generators/lang_card.py) and the Roast Widget                          *)
(* (roast_widget_streamlit.py).                                            *)
(*                                                                         *)
(* Python values.  A dict-or-None value is a record or None below; a       *)
(* str-or-None value is a string or PyNone.  The outcome of a Python call  *)
(* is [raised, value, calls]: whether it raised, what it returned, and the *)
(* network / collaborator calls it made, in order.                         *)
(***************************************************************************)
EXTENDS Integers, Sequences, FiniteSets, TLC

VARIABLES
    github,              \* the external GitHub service: accounts and network condition
    call,                \* Stats Fetcher: the last call made, [op, username, token]
    ret,                 \* Stats Fetcher: the outcome of that call
    data,                \* Card Renderer: data["top_languages"], (name, count) pairs
    excluded_languages,  \* Card Renderer: the exclusion argument
    svg,                 \* Card Renderer: the drawing returned
    username,            \* Roast Widget: the text input's value
    roast_data,          \* Roast Widget: st.session_state.roast_data
    run                  \* Roast Widget: what the last script run did and rendered

vars == <<github, call, ret, data, excluded_languages, svg, username, roast_data, run>>

fetcherVars == <<call, ret>>
cardVars == <<data, excluded_languages, svg>>
widgetVars == <<username, roast_data, run>>

-----------------------------------------------------------------------------
(* Python values *)

None == [tag |-> "None"]
PyNone == "<None>"

Return(v, cs) == [raised |-> FALSE, value |-> v, calls |-> cs]
Raise(cs) == [raised |-> TRUE, value |-> None, calls |-> cs]

Max(a, b) == IF a >= b THEN a ELSE b
Min(a, b) == IF a <= b THEN a ELSE b

-----------------------------------------------------------------------------
(* The GitHub service, as the fetcher sees it through requests.get/post *)

Logins == {"octocat", "torvalds"}
Usernames == Logins \cup {"ghost"}
Tokens == {PyNone, "", "ghp_token"}

RestModes == {"ok", "status", "raise"}
GraphModes == {"ok", "status", "errors", "malformed", "raise"}

HttpResponse(status, body) == [raised |-> FALSE, status_code |-> status, json |-> body]
ConnectionError == [raised |-> TRUE, status_code |-> 0, json |-> None]

\* GET /users/{username}
requests_get_user(gh, u) ==
    IF gh.net.user = "raise" THEN ConnectionError
    ELSE IF gh.net.user = "status" \/ u \notin Logins THEN HttpResponse(404, None)
    ELSE HttpResponse(200,
            [login |-> u,
             name |-> gh.accounts[u].name,
             bio |-> PyNone,
             public_repos |-> gh.accounts[u].public_repos,
             followers |-> 7,
             following |-> 3,
             avatar_url |-> "https://avatars/" \o u,
             created_at |-> "2011-01-25T18:44:36Z"])

\* GET /users/{username}/repos?per_page=100&sort=updated
requests_get_repos(gh, u) ==
    IF gh.net.repos = "raise" THEN ConnectionError
    ELSE IF gh.net.repos = "status" \/ u \notin Logins THEN HttpResponse(403, None)
    ELSE HttpResponse(200, gh.accounts[u].repos)

GraphNode(repo) ==
    [name |-> "repo",
     primaryLanguage |-> IF repo.language = PyNone THEN None ELSE [name |-> repo.language]]

\* POST /graphql with a bearer token
requests_post_graphql(gh, u) ==
    CASE gh.net.graph = "raise" -> ConnectionError
      [] gh.net.graph = "status" -> HttpResponse(401, None)
      [] gh.net.graph = "errors" \/ (gh.net.graph = "ok" /\ u \notin Logins) ->
            HttpResponse(200, [errors |-> <<"NOT_FOUND">>])
      [] gh.net.graph = "malformed" -> HttpResponse(200, [message |-> "unexpected"])
      [] OTHER ->
            HttpResponse(200,
              [data |-> [user |->
                 [login |-> u,
                  name |-> gh.accounts[u].name,
                  bio |-> PyNone,
                  avatarUrl |-> "https://avatars/" \o u,
                  repositories |->
                     [totalCount |-> gh.accounts[u].public_repos,
                      nodes |-> [i \in DOMAIN gh.accounts[u].repos |->
                                    GraphNode(gh.accounts[u].repos[i])]],
                  contributionsCollection |->
                     [totalCommitContributions |-> gh.accounts[u].commits]]]])

-----------------------------------------------------------------------------
(* collections.Counter: (name, count) entries in first-insertion order *)

\* the k-th smallest member of a set of positions
KthOf(S, k) == CHOOSE i \in S : Cardinality({j \in S : j < i}) = k - 1

\* the Counter left by "if key: counter[key] += 1" run over keys in order: one
\* entry per distinct truthy key, placed by the key's first occurrence, counting
\* its occurrences
CounterOf(keys) ==
    LET counted == {i \in DOMAIN keys : keys[i] # PyNone /\ keys[i] # ""}
        firsts == {i \in counted : \A j \in counted : j < i => keys[j] # keys[i]}
    IN  [k \in 1..Cardinality(firsts) |->
            LET i == KthOf(firsts, k)
            IN  [name |-> keys[i],
                 count |-> Cardinality({j \in counted : keys[j] = keys[i]})]]

\* f[lo] + ... + f[hi]
RECURSIVE SumRange(_, _, _)
SumRange(f, lo, hi) ==
    IF lo > hi THEN 0
    ELSE IF lo = hi THEN f[lo]
    ELSE LET mid == (lo + hi) \div 2
         IN  SumRange(f, lo, mid) + SumRange(f, mid + 1, hi)

\* insert e after every entry whose count is >= e.count (a stable descending sort)
RECURSIVE InsertByCount(_, _)
InsertByCount(sorted, e) ==
    IF sorted = <<>> THEN <<e>>
    ELSE IF Head(sorted).count >= e.count
         THEN <<Head(sorted)>> \o InsertByCount(Tail(sorted), e)
         ELSE <<e>> \o sorted

RECURSIVE SortedByCount(_)
SortedByCount(counter) ==
    IF counter = <<>> THEN <<>>
    ELSE InsertByCount(SortedByCount(SubSeq(counter, 1, Len(counter) - 1)),
                       counter[Len(counter)])

TopN == 5

most_common_unbounded(counter, n) == SortedByCount(counter)

most_common(counter, n) ==
    LET s == SortedByCount(counter) IN SubSeq(s, 1, Min(n, Len(s)))

-----------------------------------------------------------------------------
(* fetch_github_stats *)

ScanLimit == 30

\* the loop of lines 55-62 over repos[:limit]
ScanRepos(repos, limit) ==
    LET scanned == 1..Min(Len(repos), limit)
    IN  [language_counts |-> CounterOf([i \in scanned |-> repos[i].language]),
         total_commits_estimate |->
            SumRange([i \in scanned |->
                        IF ~repos[i].fork THEN repos[i].size \div 10 ELSE 0],
                     1, Min(Len(repos), limit))]

LanguageStats_whole_list(repos) == ScanRepos(repos, Len(repos))

LanguageStats(repos) == ScanRepos(repos, ScanLimit)

ProfileData(user_data, stats) ==
    [username |-> user_data.login,
     name |-> IF user_data.name # PyNone /\ user_data.name # ""
              THEN user_data.name ELSE user_data.login,
     bio |-> user_data.bio,
     public_repos |-> user_data.public_repos,
     followers |-> user_data.followers,
     following |-> user_data.following,
     avatar_url |-> user_data.avatar_url,
     created_at |-> user_data.created_at,
     top_languages |-> most_common(stats.language_counts, TopN),
     total_commits |-> Max(stats.total_commits_estimate, user_data.public_repos * 5)]

\* the body of the try block, lines 23-84
fetch_github_stats_try(gh, u) ==
    LET user_response == requests_get_user(gh, u)
        repos_response == requests_get_repos(gh, u)
        repos == IF repos_response.status_code # 200 THEN <<>> ELSE repos_response.json
    IN  IF user_response.raised THEN Raise(<<"GET /users">>)
        ELSE IF user_response.status_code # 200 THEN Return(None, <<"GET /users">>)
        ELSE IF repos_response.raised THEN Raise(<<"GET /users", "GET /repos">>)
        ELSE Return(ProfileData(user_response.json, LanguageStats(repos)),
                    <<"GET /users", "GET /repos">>)

\* try ... except Exception: return None
fetch_github_stats(gh, u) ==
    LET body == fetch_github_stats_try(gh, u)
    IN  IF body.raised THEN Return(None, body.calls) ELSE body

-----------------------------------------------------------------------------
(* fetch_github_stats_detailed *)

\* lines 166-170
CountPrimaryLanguages(nodes) ==
    CounterOf([i \in DOMAIN nodes |->
                 IF nodes[i].primaryLanguage # None
                 THEN nodes[i].primaryLanguage.name
                 ELSE PyNone])

DetailedData(user) ==
    [username |-> user.login,
     name |-> IF user.name # PyNone /\ user.name # "" THEN user.name ELSE user.login,
     bio |-> user.bio,
     avatar_url |-> user.avatarUrl,
     public_repos |-> user.repositories.totalCount,
     total_commits |-> user.contributionsCollection.totalCommitContributions,
     top_languages |->
        most_common(CountPrimaryLanguages(user.repositories.nodes), TopN)]

FallbackAbsent(gh, u, cs) == Return(None, cs)

\* what the fallback "return fetch_github_stats(username)" yields after the calls cs
Fallback(gh, u, cs) ==
    LET basic == fetch_github_stats(gh, u)
    IN  [basic EXCEPT !.calls = cs \o @]

\* the body of the try block, lines 140-185
fetch_detailed_try(gh, u) ==
    LET response == requests_post_graphql(gh, u)
        cs == <<"POST /graphql">>
    IN  IF response.raised THEN Raise(cs)
        ELSE IF response.status_code # 200 THEN Fallback(gh, u, cs)
        ELSE IF "errors" \in DOMAIN response.json THEN Fallback(gh, u, cs)
        ELSE IF "data" \notin DOMAIN response.json THEN Raise(cs)
        ELSE Return(DetailedData(response.json.data.user), cs)

fetch_github_stats_detailed(gh, u, github_token) ==
    IF github_token = PyNone \/ github_token = ""
    THEN Fallback(gh, u, <<>>)
    ELSE LET body == fetch_detailed_try(gh, u)
         IN  IF body.raised THEN Fallback(gh, u, body.calls) ELSE body


-----------------------------------------------------------------------------
(* draw_lang_card.  A language name is a sequence of characters, so that     *)
(* str.lower() is computed character by character.  A float is kept exact:   *)
(* fill_width is the fraction num/den, and the text of f"{pct:.1f}%" is the  *)
(* number of tenths of a percent it shows.                                   *)

LowerChar(c) ==
    CASE c = "G" -> "g"
      [] c = "O" -> "o"
      [] c = "C" -> "c"
      [] c = "R" -> "r"
      [] c = "N" -> "n"
      [] c = "D" -> "d"
      [] OTHER -> c

lower(str) == [i \in DOMAIN str |-> LowerChar(str[i])]

NoData == <<"N", "o", " ", "D", "a", "t", "a">>

RECURSIVE SumCounts(_)
SumCounts(langs) ==
    IF langs = <<>> THEN 0 ELSE Head(langs).count + SumCounts(Tail(langs))

\* round(num / den) to the nearest integer, ties to the even one
RoundHalfEven(num, den) ==
    LET q == num \div den
        r == num % den
    IN  IF 2 * r < den THEN q
        ELSE IF 2 * r > den THEN q + 1
        ELSE IF q % 2 = 0 THEN q ELSE q + 1

ExcludeCaseSensitive(langs, excluded) ==
    IF excluded # <<>> /\ langs # <<>>
    THEN LET Kept(pair) == \A j \in DOMAIN excluded : pair.name # excluded[j]
         IN  SelectSeq(langs, Kept)
    ELSE langs

\* lines 23-30; an exclusion argument of None takes the branch of the empty list
Exclude(langs, excluded) ==
    IF excluded # <<>> /\ langs # <<>>
    THEN LET excluded_lower == [j \in DOMAIN excluded |-> lower(excluded[j])]
             Kept(pair) == \A j \in DOMAIN excluded_lower :
                              lower(pair.name) # excluded_lower[j]
         IN  SelectSeq(langs, Kept)
    ELSE langs

card_width == 300
item_height == 35
header_height == 40
start_y == 60

CardHeightNoMargin(langs) == header_height + (Len(langs) * item_height)

\* line 38
CardHeight(langs) == header_height + (Len(langs) * item_height) + 10

\* lines 54-79: one row per language, top to bottom
CardRows(langs) ==
    LET sum == SumCounts(langs)
        total_usage == IF sum = 0 THEN 1 ELSE sum
        bar_width == card_width - 40
    IN  [i \in DOMAIN langs |->
            [y |-> start_y + ((i - 1) * item_height),
             label |-> langs[i].name,
             pct_tenths |-> RoundHalfEven(langs[i].count * 1000, total_usage),
             bar_width |-> bar_width,
             fill_width |-> [num |-> langs[i].count * bar_width, den |-> total_usage]]]

draw_lang_card(d, excluded) ==
    LET filtered == Exclude(d.top_languages, excluded)
        langs == IF filtered = <<>> THEN <<[name |-> NoData, count |-> 0]>> ELSE filtered
    IN  [width |-> card_width,
         height |-> CardHeight(langs),
         rows |-> CardRows(langs)]

-----------------------------------------------------------------------------
(* render_roast_widget.  One script run handles at most one button.  The     *)
(* outcome of generate_profile_roast, an external collaborator, is an input. *)

CallFetch(u, outcome) ==
    [fn |-> "fetch_github_stats", arg |-> [username |-> u],
     raised |-> outcome.raised, value |-> outcome.value]

CallRoast(profile, outcome) ==
    [fn |-> "generate_profile_roast", arg |-> profile,
     raised |-> outcome.raised, value |-> outcome.value]

RECURSIVE Join(_, _)
Join(sep, strs) ==
    IF strs = <<>> THEN ""
    ELSE IF Len(strs) = 1 THEN strs[1]
    ELSE strs[1] \o sep \o Join(sep, Tail(strs))

\* lines 110-162: what is rendered below the generate button
Display(user, session) ==
    IF session = None THEN None
    ELSE LET profile == session.profile
             top == SubSeq(profile.top_languages, 1, Min(3, Len(profile.top_languages)))
             top_langs == [i \in DOMAIN top |-> top[i].name]
         IN  [roast_text |-> session.roast,
              file_name |-> user \o "_roast.txt",
              file_data |-> session.roast,
              langs_str |-> IF top_langs # <<>> THEN Join(", ", top_langs) ELSE "N/A",
              total_commits |-> profile.total_commits,
              source |-> session.source]

GenerateClickedClearing(user, session, gh, roast_outcome) ==
    LET fetched == fetch_github_stats(gh, user)
        fetch_call == CallFetch(user, fetched)
    IN  IF fetched.value # None /\ ~roast_outcome.raised
        THEN [roast_data |-> [roast |-> roast_outcome.value.roast,
                              profile |-> fetched.value,
                              source |-> roast_outcome.value.source],
              error |-> PyNone,
              calls |-> <<fetch_call, CallRoast(fetched.value, roast_outcome)>>]
        ELSE [roast_data |-> None,
              error |-> "Failed to fetch GitHub profile data",
              calls |-> IF fetched.value # None
                        THEN <<fetch_call, CallRoast(fetched.value, roast_outcome)>>
                        ELSE <<fetch_call>>]

\* lines 90-107: the generate button's handler
GenerateClicked(user, session, gh, roast_outcome) ==
    LET fetched == fetch_github_stats(gh, user)
        fetch_call == CallFetch(user, fetched)
    IN  IF fetched.raised
        THEN [roast_data |-> session,
              error |-> "Error generating roast: fetch",
              calls |-> <<fetch_call>>]
        ELSE IF fetched.value # None
        THEN IF roast_outcome.raised
             THEN [roast_data |-> session,
                   error |-> "Error generating roast: roast",
                   calls |-> <<fetch_call, CallRoast(fetched.value, roast_outcome)>>]
             ELSE [roast_data |-> [roast |-> roast_outcome.value.roast,
                                   profile |-> fetched.value,
                                   source |-> roast_outcome.value.source],
                   error |-> PyNone,
                   calls |-> <<fetch_call, CallRoast(fetched.value, roast_outcome)>>]
        ELSE [roast_data |-> session,
              error |-> "Failed to fetch GitHub profile data",
              calls |-> <<fetch_call>>]

RegenerateClickedRefetching(user, session, gh, roast_outcome) ==
    LET fetched == fetch_github_stats(gh, user)
        profile == IF fetched.value # None THEN fetched.value ELSE session.profile
    IN  IF roast_outcome.raised
        THEN [roast_data |-> session,
              error |-> "Error: roast",
              calls |-> <<CallFetch(user, fetched), CallRoast(profile, roast_outcome)>>]
        ELSE [roast_data |-> [roast |-> roast_outcome.value.roast,
                              profile |-> profile,
                              source |-> session.source],
              error |-> PyNone,
              calls |-> <<CallFetch(user, fetched), CallRoast(profile, roast_outcome)>>]

\* lines 120-127: the new-roast button's handler, on the cached profile
RegenerateClicked(user, session, gh, roast_outcome) ==
    IF roast_outcome.raised
    THEN [roast_data |-> session,
          error |-> "Error: roast",
          calls |-> <<CallRoast(session.profile, roast_outcome)>>]
    ELSE [roast_data |-> [session EXCEPT !.roast = roast_outcome.value.roast],
          error |-> PyNone,
          calls |-> <<CallRoast(session.profile, roast_outcome)>>]

-----------------------------------------------------------------------------
(* Inputs of the Stats Fetcher *)

SeqsUpTo(S, n) == UNION {[1..k -> S] : k \in 0..n}

Range(s) == {s[i] : i \in DOMAIN s}

RepoShapes == {[fork |-> FALSE, size |-> 100],
               [fork |-> FALSE, size |-> 55],
               [fork |-> TRUE, size |-> 40]}

RepoKinds == {[language |-> l, fork |-> sh.fork, size |-> sh.size] :
                 l \in {PyNone, "Go", "Python"}, sh \in RepoShapes}

\* a fixed account history: its i-th most recently updated repository
HistoryLanguages == <<"C", "Rust", PyNone, "Java", "Go", "Ruby", "Shell", "Python">>

HistoryRepo(i) ==
    [language |-> HistoryLanguages[(((i * (i + 1)) \div 2) % Len(HistoryLanguages)) + 1],
     fork |-> (i % 4 = 0),
     size |-> (i * 37) % 101]

History(n) == [i \in 1..n |-> HistoryRepo(i)]

HistoryLengths == {0, Len(HistoryLanguages), ScanLimit - 1, ScanLimit}

\* the example of the specification's testable properties
ExampleRepos == <<[language |-> "Go", fork |-> FALSE, size |-> 100],
                  [language |-> "Go", fork |-> FALSE, size |-> 50],
                  [language |-> "Python", fork |-> TRUE, size |-> 40]>>

MaxRecent == 2
MaxReposUnderFaults == 1

\* repository lists met with a healthy network: a history followed by any few repositories
RepoLists ==
    {History(n) \o t : n \in HistoryLengths, t \in SeqsUpTo(RepoKinds, MaxRecent)}
        \cup {ExampleRepos}

\* repository lists met under every network condition
RepoListsUnderFaults == SeqsUpTo(RepoKinds, MaxReposUnderFaults)

PublicRepos == {0, 2, 40}

Nets == [user : RestModes, repos : RestModes, graph : GraphModes]
NetOk == [user |-> "ok", repos |-> "ok", graph |-> "ok"]

Accounts(repos, public_repos) ==
    [l \in Logins |->
        IF l = "octocat"
        THEN [name |-> PyNone, public_repos |-> public_repos,
              repos |-> repos, commits |-> 1200]
        ELSE [name |-> "Linus Torvalds", public_repos |-> 2,
              repos |-> ExampleRepos, commits |-> 3]]

NoCall == [op |-> "none", username |-> "", token |-> PyNone]

FetcherIdle == call = NoCall /\ ret = Return(None, <<>>)
CardIdle == data = <<>> /\ excluded_languages = <<>> /\ svg = None
WidgetIdle == username = "" /\ roast_data = None /\ run = None

-----------------------------------------------------------------------------
(* The Stats Fetcher called on a GitHub service in some condition *)

InitFetch ==
    /\ \E public_repos \in PublicRepos :
          \/ \E repos \in RepoLists :
                github = [accounts |-> Accounts(repos, public_repos), net |-> NetOk]
          \/ \E repos \in RepoListsUnderFaults, net \in Nets :
                github = [accounts |-> Accounts(repos, public_repos), net |-> net]
    /\ FetcherIdle
    /\ CardIdle
    /\ WidgetIdle

FetchBasic(u) ==
    /\ call' = [op |-> "fetch_github_stats", username |-> u, token |-> PyNone]
    /\ ret' = fetch_github_stats(github, u)
    /\ UNCHANGED <<github, cardVars, widgetVars>>

FetchDetailed(u, github_token) ==
    /\ call' = [op |-> "fetch_github_stats_detailed", username |-> u,
                token |-> github_token]
    /\ ret' = fetch_github_stats_detailed(github, u, github_token)
    /\ UNCHANGED <<github, cardVars, widgetVars>>

NextFetch ==
    \/ \E u \in Usernames : FetchBasic(u)
    \/ \E u \in Usernames, t \in Tokens : FetchDetailed(u, t)

SpecFetch == InitFetch /\ [][NextFetch]_vars

-----------------------------------------------------------------------------
(* Properties of the Stats Fetcher *)

IsBasicCall == call.op = "fetch_github_stats"
IsDetailedCall == call.op = "fetch_github_stats_detailed"
TokenSupplied == call.token # PyNone /\ call.token # ""

\* the graph call, made now for the account of the last call, would not yield user data
GraphCallFails ==
    LET response == requests_post_graphql(github, call.username)
    IN  \/ response.raised
        \/ response.status_code # 200
        \/ "errors" \in DOMAIN response.json
        \/ "data" \notin DOMAIN response.json

\* C3: fetch_github_stats_detailed never raises; without a token, or when the
\* graph call fails (transport error, non-200, an errors payload, any exception),
\* it returns exactly what fetch_github_stats returns for the same username; and
\* without a token it makes no call to the graph API.
C3_DetailedFallsBackToBasic ==
    IsDetailedCall =>
        /\ ~ret.raised
        /\ (~TokenSupplied \/ GraphCallFails) =>
              ret.value = fetch_github_stats(github, call.username).value
        /\ ~TokenSupplied => "POST /graphql" \notin Range(ret.calls)

C3_Witness ==
    /\ IsDetailedCall
    /\ TokenSupplied
    /\ github.net.graph = "raise"
    /\ "POST /graphql" \in Range(ret.calls)
    /\ ret.value # None
    /\ ret.value.top_languages # <<>>

ProfileCallFails ==
    LET user_response == requests_get_user(github, call.username)
    IN  user_response.raised \/ user_response.status_code # 200

ReposCallFails ==
    LET repos_response == requests_get_repos(github, call.username)
    IN  repos_response.raised \/ repos_response.status_code # 200

\* C4: fetch_github_stats never raises; it returns None when the profile call
\* fails; when the profile call succeeds and the repositories call fails (non-200
\* or a transport error) it returns a record built from an empty repository list:
\* no top_languages, and total_commits = public_repos * 5.
C4_BasicDegradesToEmptyRepos ==
    IsBasicCall =>
        /\ ~ret.raised
        /\ ProfileCallFails => ret.value = None
        /\ (~ProfileCallFails /\ ReposCallFails) =>
              /\ ret.value # None
              /\ ret.value.top_languages = <<>>
              /\ ret.value.total_commits = ret.value.public_repos * 5

\* C5: the top_languages of every record returned by either fetch has at most
\* five entries, in non-increasing order of count.
C5_TopLanguagesBoundedAndSorted ==
    ((IsBasicCall \/ IsDetailedCall) /\ ret.value # None) =>
        LET top == ret.value.top_languages
        IN  /\ Len(top) <= 5
            /\ \A i, j \in DOMAIN top : i < j => top[i].count >= top[j].count

\* the distinct languages of the repositories at positions 1..n
LanguagesAmong(repos, n) ==
    {repos[i].language : i \in 1..Min(n, Len(repos))} \ {PyNone}

C5_Witness ==
    /\ IsBasicCall
    /\ ret.value # None
    /\ Len(ret.value.top_languages) = 5
    /\ Cardinality(LanguagesAmong(github.accounts[call.username].repos, ScanLimit)) > 5
    /\ \E i \in 1..4 : ret.value.top_languages[i].count > ret.value.top_languages[i + 1].count
    /\ \E i \in 1..4 : ret.value.top_languages[i].count = ret.value.top_languages[i + 1].count

RECURSIVE SumOver(_, _)
SumOver(S, f) ==
    IF S = {} THEN 0
    ELSE LET x == CHOOSE y \in S : TRUE IN f[x] + SumOver(S \ {x}, f)

\* S of the claim: size // 10 summed over the non-fork repositories among the
\* first 30, each value of size // 10 taken as often as it occurs
NonForkSizeSum(repos) ==
    LET counted == {i \in DOMAIN repos : i <= 30 /\ ~repos[i].fork}
        tenths == {repos[i].size \div 10 : i \in counted}
    IN  SumOver(tenths,
                [t \in tenths |->
                    t * Cardinality({i \in counted : repos[i].size \div 10 = t})])

\* C6: when the API returns a repository list, the total_commits of the record
\* fetch_github_stats returns is max(S, public_repos * 5).
C6_TotalCommitsEstimate ==
    (IsBasicCall /\ ret.value # None /\ ~ReposCallFails) =>
        LET account == github.accounts[call.username]
        IN  ret.value.total_commits =
                Max(NonForkSizeSum(account.repos), account.public_repos * 5)

C6_Witness ==
    /\ IsBasicCall
    /\ ret.value # None
    /\ ~ReposCallFails
    /\ LET repos == github.accounts[call.username].repos
       IN  /\ Len(repos) > 30
           /\ \E i \in DOMAIN repos : i > 30 /\ ~repos[i].fork /\ repos[i].size >= 10
           /\ \E i \in DOMAIN repos : i <= 30 /\ repos[i].fork /\ repos[i].size >= 10
           /\ \E i \in DOMAIN repos : i <= 30 /\ ~repos[i].fork /\ repos[i].size % 10 # 0
           /\ ret.value.total_commits = NonForkSizeSum(repos)
           /\ ret.value.total_commits > github.accounts[call.username].public_repos * 5

ProfileRecordFields ==
    {"username", "name", "bio", "public_repos", "followers", "following",
     "avatar_url", "created_at", "top_languages", "total_commits"}

\* C7: every record fetch_github_stats_detailed returns, by the graph path or by
\* the fallback, carries the same ten fields of a Profile Record.
C7_DetailedRecordWellFormed ==
    (IsDetailedCall /\ ret.value # None) => DOMAIN ret.value = ProfileRecordFields

-----------------------------------------------------------------------------
(* The Card Renderer called on a language list and an exclusion list *)

MaxLangs == 2
MaxExcluded == 2

LangNames == {<<"G", "o">>, <<"g", "o">>, <<"C">>}
LangCounts == {0, 1, 2}
ExcludedNames == {<<"G", "O">>, <<"c">>, <<"R">>}

LangPairs == [name : LangNames, count : LangCounts]

InitCard ==
    /\ \E langs \in SeqsUpTo(LangPairs, MaxLangs) : data = [top_languages |-> langs]
    /\ excluded_languages \in SeqsUpTo(ExcludedNames, MaxExcluded)
    /\ svg = None
    /\ github = [accounts |-> Accounts(<<>>, 0), net |-> NetOk]
    /\ FetcherIdle
    /\ WidgetIdle

DrawLangCard ==
    /\ svg' = draw_lang_card(data, excluded_languages)
    /\ UNCHANGED <<github, fetcherVars, data, excluded_languages, widgetVars>>

NextCard == DrawLangCard

SpecCard == InitCard /\ [][NextCard]_vars

CasePairs == {<<"G", "g">>, <<"O", "o">>, <<"C", "c">>, <<"R", "r">>}

SameLetter(c, d) == c = d \/ <<c, d>> \in CasePairs \/ <<d, c>> \in CasePairs

EqualIgnoringCase(a, b) ==
    Len(a) = Len(b) /\ \A i \in DOMAIN a : SameLetter(a[i], b[i])

\* the positions of the pairs whose name equals no excluded name, ignoring case
KeptPositions ==
    {i \in DOMAIN data.top_languages :
        \A j \in DOMAIN excluded_languages :
            ~EqualIgnoringCase(data.top_languages[i].name, excluded_languages[j])}

RowCount == IF KeptPositions = {} THEN 1 ELSE Cardinality(KeptPositions)

\* C8: the card is 300 wide and 50 + 35 * rowCount high, rowCount being the
\* number of pairs left after exclusion, or 1 when none is left.
C8_CardHeightAffineInRows ==
    svg # None => (svg.width = 300 /\ svg.height = 50 + 35 * RowCount)

C8_Witness ==
    /\ svg # None
    /\ Len(data.top_languages) = 2
    /\ Cardinality(KeptPositions) = 1
    /\ svg.height = 85

\* C9: the rows drawn are the pairs whose name equals no excluded name ignoring
\* case, in their original order; when none is left the only row is the
\* placeholder "No Data", shown at 0% with a fill bar of width 0.
C9_ExclusionIgnoresCaseKeepsOrder ==
    svg # None =>
        IF KeptPositions = {}
        THEN /\ Len(svg.rows) = 1
             /\ svg.rows[1].label = NoData
             /\ svg.rows[1].pct_tenths = 0
             /\ svg.rows[1].fill_width.num = 0
        ELSE /\ Len(svg.rows) = Cardinality(KeptPositions)
             /\ \A k \in DOMAIN svg.rows :
                   LET pair == data.top_languages[KthOf(KeptPositions, k)]
                   IN  /\ svg.rows[k].label = pair.name
                       /\ svg.rows[k].fill_width.num = pair.count * 260

C9_Witness ==
    /\ svg # None
    /\ Len(data.top_languages) = 2
    /\ data.top_languages[1].name = <<"g", "o">>
    /\ data.top_languages[2].name = <<"G", "o">>
    /\ data.top_languages[2].count = 2
    /\ excluded_languages = <<<<"G", "O">>>>
    /\ svg.rows = <<[y |-> 60, label |-> NoData, pct_tenths |-> 0, bar_width |-> 260,
                     fill_width |-> [num |-> 0, den |-> 1]]>>

-----------------------------------------------------------------------------
(* A session of the Roast Widget *)

RoastTexts == {"roast A", "roast B"}
RoastSources == {"Gemini", "fallback"}

RoastOutcomes ==
    {Raise(<<>>)} \cup
        {Return([roast |-> r, source |-> src], <<>>) : r \in RoastTexts, src \in RoastSources}

\* what a script run leaves on the page
Page(action, handled, user, session) ==
    [action |-> action,
     calls |-> handled.calls,
     error |-> handled.error,
     display |-> Display(user, session),
     copied |-> IF action = "copy" THEN session.roast ELSE PyNone]

NothingHandled == [roast_data |-> None, error |-> PyNone, calls |-> <<>>]

Init ==
    /\ github = [accounts |-> Accounts(History(Len(HistoryLanguages)), 2), net |-> NetOk]
    /\ username = "torvalds"
    /\ roast_data = None
    /\ run = Page("load", NothingHandled, username, roast_data)
    /\ FetcherIdle
    /\ CardIdle

\* the account name in the text input is edited; the script reruns
SetUsername(u) ==
    /\ u # username
    /\ username' = u
    /\ run' = Page("input", NothingHandled, u, roast_data)
    /\ UNCHANGED <<github, roast_data, fetcherVars, cardVars>>

\* "Generate Roast" is pressed, the network and the collaborator being as they are
Generate(user_mode, repos_mode, roast_outcome) ==
    /\ github' = [github EXCEPT !.net.user = user_mode, !.net.repos = repos_mode]
    /\ LET handled == GenerateClicked(username, roast_data, github', roast_outcome)
       IN  /\ roast_data' = handled.roast_data
           /\ run' = Page("generate", handled, username, handled.roast_data)
    /\ UNCHANGED <<username, fetcherVars, cardVars>>

\* "New Roast" is pressed; on success st.rerun() renders the page anew
Regenerate(roast_outcome) ==
    /\ roast_data # None
    /\ LET handled == RegenerateClicked(username, roast_data, github, roast_outcome)
       IN  /\ roast_data' = handled.roast_data
           /\ run' = Page("regenerate", handled, username, handled.roast_data)
    /\ UNCHANGED <<github, username, fetcherVars, cardVars>>

\* "Copy" is pressed
Copy ==
    /\ roast_data # None
    /\ run' = Page("copy", NothingHandled, username, roast_data)
    /\ UNCHANGED <<github, username, roast_data, fetcherVars, cardVars>>

\* "Save" is pressed: the file offered is downloaded
Save ==
    /\ roast_data # None
    /\ run' = Page("save", NothingHandled, username, roast_data)
    /\ UNCHANGED <<github, username, roast_data, fetcherVars, cardVars>>

GenerateAny == \E um, rm \in RestModes, ro \in RoastOutcomes : Generate(um, rm, ro)

Next ==
    \/ \E u \in Usernames : SetUsername(u)
    \/ GenerateAny
    \/ \E ro \in RoastOutcomes : Regenerate(ro)
    \/ Copy
    \/ Save

Spec == Init /\ [][Next]_vars

\* the last run handled generate or new-roast, and its last call raised or returned None
ActionFailed(page) ==
    /\ page.action \in {"generate", "regenerate"}
    /\ LET last == page.calls[Len(page.calls)]
       IN  last.raised \/ last.value = None

\* C1: a generate or new-roast that fails shows an error and leaves
\* st.session_state.roast_data as it was, whatever it was; and generate can be
\* pressed again.
C1_FailedActionKeepsCache ==
    /\ [][ActionFailed(run') => (roast_data' = roast_data /\ run'.error # PyNone)]_vars
    /\ [](ActionFailed(run) => ENABLED GenerateAny)

C1_Witness ==
    /\ run.action = "generate"
    /\ ActionFailed(run)
    /\ run.calls[Len(run.calls)].fn = "fetch_github_stats"
    /\ run.error # PyNone
    /\ roast_data # None
    /\ roast_data.profile.username # username

\* C2: new-roast can only be pressed with a cached record; when it succeeds its
\* only call is generate_profile_roast on the cached profile (no fetch), and only
\* the roast text of the cached record changes, to the text returned.
C2_RegenerateReplacesOnlyRoast ==
    [][run'.action = "regenerate" =>
          /\ roast_data # None
          /\ ~ActionFailed(run') =>
                /\ Len(run'.calls) = 1
                /\ run'.calls[1].fn = "generate_profile_roast"
                /\ run'.calls[1].arg = roast_data.profile
                /\ roast_data'.roast = run'.calls[1].value.roast
                /\ roast_data'.profile = roast_data.profile
                /\ roast_data'.source = roast_data.source]_vars

C2_Witness ==
    /\ run.action = "regenerate"
    /\ ~ActionFailed(run)
    /\ roast_data.roast = "roast B"
    /\ roast_data.source = "Gemini"
    /\ run.calls[1].value.source = "fallback"
    /\ roast_data.profile.username # username

\* C10: the file offered by Save is named after the account whose profile is in
\* the cached record.
C10_SaveNamedAfterCachedAccount ==
    run.display # None =>
        run.display.file_name = roast_data.profile.username \o "_roast.txt"

=============================================================================
